---------------------------- MODULE Spec2Model ----------------------------
(***************************************************************************)
(* State-machine model of the Tremolo-1.0 signal-processing core:          *)
(*   OnePoleSmoother (src/src/OnePoleSmoother.h)                            *)
(*   FeatureExtractor (src/src/FeatureExtractor.h)                          *)
(*   Tremolo          (src/src/Tremolo.h, src/src/Tremolo.cpp)              *)
(*   the driver loop  (src/src/main.cpp)                                    *)
(*                                                                         *)
(* Number representation.  The program computes in float/double; the model *)
(* computes in fixed point on integers:                                    *)
(*   amplitudes, depth, wet, LFO values, gains : units of 1/One            *)
(*   phase and phase increments               : units of 1/PhaseOne cycle  *)
(*   rates                                     : units of 1/RateOne Hz      *)
(*   sample rates                              : Hz                         *)
(*   time constants                            : units of 1/TauOne second   *)
(*   smoothing coefficient                     : units of 1/CoefOne         *)
(* A product of two fixed-point numbers is rescaled with \div (rounding    *)
(* toward minus infinity), where the float code rounds to nearest.  The    *)
(* 1e-20 denormal offsets are below every resolution and are modelled as 0. *)
(* The argument of std::sin is the one value of the LFO path that exceeds  *)
(* 1.0; it is rounded to the precision a float has at its magnitude (Fl).  *)
(***************************************************************************)
EXTENDS Integers, Sequences, FiniteSets

\* ------------------------------------------------------------ scales
One      == 1000      \* 1.0f for amplitudes, depth, wet, lfo, gain
PhaseOne == 8         \* 1.0f for phase_ (one LFO cycle)
RateOne  == 10000     \* 1 Hz; one unit is 0.0001 Hz, the floor of setRateHz
TauOne   == 1000000   \* 1 second; one unit is 1e-6 s, the floor of setTimeConstant
CoefOne  == 1000      \* 1.0f for the smoothing coefficient a

Max(x, y) == IF x >= y THEN x ELSE y
Min(x, y) == IF x <= y THEN x ELSE y

\* ------------------------------------------------------------ bounds
FrameSize    == 4     \* analysis frame length (FeatureExtractor::FrameSize, 1024 in the source)
Block        == 3     \* driver block length (block, 512 in the source)
MaxFrames    == 9     \* longest input, in frames
MaxPush      == 6     \* pushSample calls between two resets in the FeatureExtractor specification
MaxTremFrames == 4    \* frames processed over one run of the Tremolo specification
MaxSetters   == 2     \* setter calls over one run of the Tremolo specification

VARIABLES
    sm,        \* a OnePoleSmoother on its own: [sampleRate, tau, a, z]
    smLast,    \* the last call on sm: [op, arg]
    buf,       \* FeatureExtractor::buf, the window
    featLast,  \* the last call on the FeatureExtractor and what was pushed since the last reset
    trem,      \* the Tremolo object
    call,      \* the Tremolo::process call in progress
    last,      \* the last Tremolo setter call and the last processed frame
    drv        \* main(): arguments, audio, locals and position

vars == <<sm, smLast, buf, featLast, trem, call, last, drv>>
smVars   == <<sm, smLast>>
featVars == <<buf, featLast>>
tremVars == <<trem, call, last>>

\* ============================================================ OnePoleSmoother
DefaultFs  == 48000   \* OnePoleSmoother::sampleRate, Tremolo::sr_ default and substitute
DefaultTau == 10000   \* 0.01f seconds
TauFloor   == 1       \* 1e-6f seconds
Tiny       == 0       \* 1e-20f, below the resolution of the model

\* std::exp(-num/den) in units of 1/CoefOne, by exp(-x) ~ 1/(1+x):
\* strictly between 0 and 1 for positive x, and increasing to 1 as x -> 0.
ExpNeg(num, den) == CoefOne - ((CoefOne * num) \div (den + num))

\* OnePoleSmoother::updateCoeff: a = exp(-1 / (tau * sampleRate))
Coeff(tau, sampleRate) == ExpNeg(TauOne, tau * sampleRate)
updateCoeff(s) == [s EXCEPT !.a = Coeff(s.tau, s.sampleRate)]

\* a default-constructed OnePoleSmoother (member initialisers)
NewSmoother == [sampleRate |-> DefaultFs, tau |-> DefaultTau, a |-> 0, z |-> 0]

SmSetSampleRate(s, fs) ==
    updateCoeff([s EXCEPT !.sampleRate = IF fs > 0 THEN fs ELSE DefaultFs])

SmSetTimeConstant(s, tauSeconds) ==
    updateCoeff([s EXCEPT !.tau = IF tauSeconds > TauFloor THEN tauSeconds ELSE TauFloor])

SmReset(s, value) == [s EXCEPT !.z = value]

\* z = a * (z + tiny) + (1 - a) * target; the new z is also the return value
SmProcess(s, target) ==
    [s EXCEPT !.z = (s.a * (s.z + Tiny) + (CoefOne - s.a) * target) \div CoefOne]

\* ---- the OnePoleSmoother on its own: any call, in any order, with any argument
SmFsArgs     == {0, 100, DefaultFs}          \* setSampleRate arguments (Hz)
SmTauArgs    == {0, 1000, DefaultTau}        \* setTimeConstant arguments
SmValueArgs  == {0, 600, One}                \* reset / process arguments

SmInit == /\ sm = NewSmoother
          /\ smLast = [op |-> "new", arg |-> 0]

SmoothSetSampleRate ==
    \E fs \in SmFsArgs :
        /\ sm' = SmSetSampleRate(sm, fs)
        /\ smLast' = [op |-> "setSampleRate", arg |-> fs]
        /\ UNCHANGED <<featVars, tremVars, drv>>

SmoothSetTimeConstant ==
    \E t \in SmTauArgs :
        /\ sm' = SmSetTimeConstant(sm, t)
        /\ smLast' = [op |-> "setTimeConstant", arg |-> t]
        /\ UNCHANGED <<featVars, tremVars, drv>>

SmoothReset ==
    \E v \in SmValueArgs :
        /\ sm' = SmReset(sm, v)
        /\ smLast' = [op |-> "reset", arg |-> v]
        /\ UNCHANGED <<featVars, tremVars, drv>>

SmoothProcess ==
    \E target \in SmValueArgs :
        /\ sm' = SmProcess(sm, target)
        /\ smLast' = [op |-> "process", arg |-> target]
        /\ UNCHANGED <<featVars, tremVars, drv>>

\* ============================================================ FeatureExtractor
\* float m = 0.5f * (L + R)
Mid(L, R) == (L + R) \div 2

\* FeatureExtractor::pushSample
pushSampleEvictNewest(b, L, R) ==
    LET pushed == Append(b, Mid(L, R))
    IN  IF Len(pushed) > FrameSize THEN SubSeq(pushed, 1, Len(pushed) - 1) ELSE pushed

pushSampleNoEvict(b, L, R) == Append(b, Mid(L, R))

pushSample(b, L, R) ==
    LET pushed == Append(b, Mid(L, R))
    IN  IF Len(pushed) > FrameSize THEN Tail(pushed) ELSE pushed

\* FeatureExtractor::ready
ready(b) == Len(b) = FrameSize

\* FeatureExtractor::reset
resetKeepsWindow(b) == b
reset(b) == << >>

RECURSIVE SumSq(_)
SumSq(b) == IF b = << >> THEN 0 ELSE Head(b) * Head(b) + SumSq(Tail(b))

\* std::sqrt on fixed point: the largest r with r*r <= v
Isqrt(v) == CHOOSE r \in 0..(2 * One) : r * r <= v /\ (r + 1) * (r + 1) > v

\* FeatureExtractor::rms
rms(b) == IF b = << >> THEN 0 ELSE Isqrt(SumSq(b) \div Len(b))

\* FeatureExtractor::zcr, crossings per sample in units of 1/One
Crossings(b) ==
    Cardinality({i \in 2..Len(b) :
        \/ (b[i - 1] >= 0 /\ b[i] < 0)
        \/ (b[i - 1] < 0 /\ b[i] >= 0)})
zcr(b) == IF Len(b) < 2 THEN 0 ELSE (Crossings(b) * One) \div (Len(b) - 1)

\* ---- the FeatureExtractor on its own
FeatSampleArgs == {-One, One}

FeatInit == /\ buf = << >>
            /\ featLast = [op |-> "new", pushed |-> << >>]

FeatPush ==
    /\ Len(featLast.pushed) < MaxPush
    /\ \E L \in FeatSampleArgs, R \in FeatSampleArgs :
        /\ buf' = pushSample(buf, L, R)
        /\ featLast' = [op |-> "pushSample", pushed |-> Append(featLast.pushed, <<L, R>>)]
    /\ UNCHANGED <<smVars, tremVars, drv>>

FeatReset ==
    /\ buf' = reset(buf)
    /\ featLast' = [op |-> "reset", pushed |-> << >>]
    /\ UNCHANGED <<smVars, tremVars, drv>>

\* ============================================================ Tremolo
Shapes == {"Sine", "Triangle", "Square", "SquareSoft"}    \* enum class LFOShape

DefaultRate  == 50000   \* rateHz_ = 5.0f
DefaultDepth == 600     \* depth_ = 0.6f
RateFloor    == 1       \* 0.0001f
SmoothTau    == 10000   \* 0.01f, the smoothing time constant set by setSampleRate
PhaseIncFloor == 1      \* 1e-9f: the smallest positive increment of the model

clamp01(x) == Max(0, Min(One, x))
clamp11(x) == Max(-One, Min(One, x))

\* a default-constructed Tremolo (member initialisers of Tremolo.h)
NewTremolo ==
    [sr_ |-> DefaultFs, rateHz_ |-> DefaultRate, depth_ |-> DefaultDepth, wet_ |-> One,
     phase_ |-> 0, phaseInc_ |-> 0, stereoPhaseR_ |-> 0, shape_ |-> "Sine",
     depthSm_ |-> NewSmoother, rateSm_ |-> NewSmoother]

\* float(rate / sr_): cycles per sample
PhaseIncOf(rate, sr) == (rate * PhaseOne) \div (sr * RateOne)

\* Tremolo::setSampleRate
setSampleRate(t, fs) ==
    LET sr == IF fs > 0 THEN fs ELSE DefaultFs
    IN  [t EXCEPT
           !.sr_ = sr,
           !.depthSm_ = SmReset(SmSetTimeConstant(SmSetSampleRate(t.depthSm_, sr), SmoothTau),
                                t.depth_),
           !.rateSm_ = SmReset(SmSetTimeConstant(SmSetSampleRate(t.rateSm_, sr), SmoothTau),
                               t.rateHz_),
           !.phaseInc_ = PhaseIncOf(t.rateHz_, sr)]

setDepthNoClamp(t, d) == [t EXCEPT !.depth_ = d]
setDepth(t, d) == [t EXCEPT !.depth_ = clamp01(d)]

setRateHzNoFloor(t, r) == [t EXCEPT !.rateHz_ = r]
setRateHz(t, r) == [t EXCEPT !.rateHz_ = Max(RateFloor, r)]

setWet(t, w) == [t EXCEPT !.wet_ = clamp01(w)]

\* d / 360.f: degrees to cycles, 180 deg -> 0.5
setStereoPhaseDeg(t, deg) ==
    LET d == Max(0, Min(180, deg))
    IN  [t EXCEPT !.stereoPhaseR_ = (d * PhaseOne) \div 360]

setShape(t, s) == [t EXCEPT !.shape_ = s]

\* std::fmod(x, 1.0f) on a non-negative phase
Fmod1(x) == x % PhaseOne

\* A float keeps a fixed number of significant bits, so the spacing of
\* neighbouring floats doubles with every doubling of the magnitude.  Ulp is
\* that spacing in the model: one unit below 1024 units, then 2, 4, 8, ...
\* Fl rounds a non-negative value to the nearest representable one.
RECURSIVE Ulp(_)
Ulp(x) == IF x < 1024 THEN 1 ELSE 2 * Ulp(x \div 2)
Fl(x) == ((x + Ulp(x) \div 2) \div Ulp(x)) * Ulp(x)

Pi    == 3142     \* float(M_PI), in units of 1/One radian
TwoPi == 6283     \* 2.0f * float(M_PI)

\* the float 2.0f * float(M_PI) * ph, the argument handed to std::sin
Angle(ph) == Fl((TwoPi * ph) \div PhaseOne)

\* std::sin on [0, pi], by 16 u (pi - u) / (5 pi^2 - 4 u (pi - u))
HalfSin(u) ==
    LET p == (u * (Pi - u)) \div One
    IN  (16 * One * p) \div (49348 - 4 * p)

\* std::sin of a non-negative angle
Sin(x) ==
    LET r == x % TwoPi
    IN  IF r <= Pi THEN HalfSin(r) ELSE -HalfSin(r - Pi)

\* std::tanh(3.0f * s) for s in [-1, 1], by x (27 + x^2) / (27 + 9 x^2)
Tanh3Pos(s) ==
    LET x  == 3 * s
        x2 == (x * x) \div One
    IN  (((x * (27 * One + x2)) \div One) * One) \div (27 * One + 9 * x2)
Tanh3(s) == IF s >= 0 THEN Tanh3Pos(s) ELSE -Tanh3Pos(-s)

Sin2Pi(ph) == Sin(Angle(ph))

lfoSine(ph) == (One + Sin2Pi(ph)) \div 2

lfoTriangle(ph) ==
    LET t   == Fmod1(ph)
        tri == IF 2 * t < PhaseOne
               THEN (t * 4 * One) \div PhaseOne - One
               ELSE 3 * One - (t * 4 * One) \div PhaseOne
    IN  (tri + One) \div 2

lfoSquare(ph) == IF Sin2Pi(ph) >= 0 THEN One ELSE 0

lfoSquareSoft(ph) == (Tanh3(Sin2Pi(ph)) + One) \div 2

Lfo(shape, ph) ==
    CASE shape = "Triangle"   -> lfoTriangle(ph)
      [] shape = "Square"     -> lfoSquare(ph)
      [] shape = "SquareSoft" -> lfoSquareSoft(ph)
      [] OTHER                -> lfoSine(ph)

\* y = (1 - wet_) * x + wet_ * (x * gain), clamped to [-1, 1]
Mix(wet, x, gain) ==
    LET xx     == x + Tiny
        wetSig == (xx * gain) \div One
    IN  clamp11(((One - wet) * xx + wet * wetSig) \div One)

\* float phR = std::fmod(phase_ + stereoPhaseR_, 1.0f)
RightPhase(t) == Fmod1(t.phase_ + t.stereoPhaseR_)

\* phase_ += phaseInc_; if (phase_ >= 1.0f) phase_ -= 1.0f;
AdvancePhase(phase, inc) ==
    IF phase + inc >= PhaseOne THEN phase + inc - PhaseOne ELSE phase + inc

\* one iteration of the loop of Tremolo::process on the frame (xL, xR);
\* a mono frame is xL, and yR is then xR unchanged
ProcessFrame(t, xL, xR, channels) ==
    LET rateSm  == SmProcess(t.rateSm_, t.rateHz_)
        rateNow == rateSm.z
        inc     == Max(PhaseIncFloor, PhaseIncOf(rateNow, t.sr_))
        depthSm == SmProcess(t.depthSm_, t.depth_)
        dNow    == depthSm.z
        phL     == t.phase_
        phR     == RightPhase(t)
        lfoL    == Lfo(t.shape_, phL)
        lfoR    == Lfo(t.shape_, phR)
        gainL   == One - (dNow * lfoL) \div One
        gainR   == One - (dNow * lfoR) \div One
    IN  [t |-> [t EXCEPT !.rateSm_ = rateSm, !.depthSm_ = depthSm, !.phaseInc_ = inc,
                         !.phase_ = AdvancePhase(t.phase_, inc)],
         yL |-> Mix(t.wet_, xL, gainL),
         yR |-> IF channels = 1 THEN xR ELSE Mix(t.wet_, xR, gainR),
         gainL |-> gainL, gainR |-> gainR]

\* ---- the Tremolo on its own: setters and process calls in any order
FsArgs    == {0, 4}                      \* setSampleRate arguments (Hz)
DepthArgs == {-500, 1500}                \* setDepth arguments
RateArgs  == {-RateOne, 8 * RateOne}     \* setRateHz arguments
WetArgs   == {-500, 1500}                \* setWet arguments
DegArgs   == {-90, 90, 270}              \* setStereoPhaseDeg arguments (degrees)
XArgs     == {-One, 600}                 \* input samples
CallFrameArgs == 0..2                    \* frames of one process call

NoCall  == [active |-> FALSE, frames |-> 0, channels |-> 0, i |-> 0]
NoFrame == [ch |-> 0, xL |-> 0, xR |-> 0, yL |-> 0, yR |-> 0, gainL |-> One, gainR |-> One]

TremInit ==
    /\ trem = NewTremolo
    /\ call = NoCall
    /\ last = [op |-> "new", arg |-> 0, setters |-> 0, frames |-> 0, frame |-> NoFrame]

\* a setter is called only between two process calls (one thread)
CanSet == ~call.active /\ last.setters < MaxSetters
NoteSetter(op, arg) == [last EXCEPT !.op = op, !.arg = arg, !.setters = @ + 1]

TremSetSampleRate ==
    /\ CanSet
    /\ \E fs \in FsArgs :
        /\ trem' = setSampleRate(trem, fs)
        /\ last' = NoteSetter("setSampleRate", fs)
    /\ UNCHANGED <<call, smVars, featVars, drv>>

TremSetDepth ==
    /\ CanSet
    /\ \E d \in DepthArgs :
        /\ trem' = setDepth(trem, d)
        /\ last' = NoteSetter("setDepth", d)
    /\ UNCHANGED <<call, smVars, featVars, drv>>

TremSetRateHz ==
    /\ CanSet
    /\ \E r \in RateArgs :
        /\ trem' = setRateHz(trem, r)
        /\ last' = NoteSetter("setRateHz", r)
    /\ UNCHANGED <<call, smVars, featVars, drv>>

TremSetWet ==
    /\ CanSet
    /\ \E w \in WetArgs :
        /\ trem' = setWet(trem, w)
        /\ last' = NoteSetter("setWet", w)
    /\ UNCHANGED <<call, smVars, featVars, drv>>

TremSetStereoPhaseDeg ==
    /\ CanSet
    /\ \E deg \in DegArgs :
        /\ trem' = setStereoPhaseDeg(trem, deg)
        /\ last' = NoteSetter("setStereoPhaseDeg", deg)
    /\ UNCHANGED <<call, smVars, featVars, drv>>

TremSetShape ==
    /\ CanSet
    /\ \E sh \in Shapes :
        /\ trem' = setShape(trem, sh)
        /\ last' = NoteSetter("setShape", sh)
    /\ UNCHANGED <<call, smVars, featVars, drv>>

\* Tremolo::process entered: if (!interleaved || channels < 1) return;
\* a call of no frames returns at once as well
TremProcessCall ==
    /\ ~call.active
    /\ \E n \in CallFrameArgs, ch \in 0..2 :
        /\ last.frames + n <= MaxTremFrames
        /\ call' = IF ch < 1 \/ n = 0 THEN NoCall
                   ELSE [active |-> TRUE, frames |-> n, channels |-> ch, i |-> 0]
        /\ last' = [last EXCEPT !.op = "process", !.arg = ch, !.frame = NoFrame]
    /\ UNCHANGED <<trem, smVars, featVars, drv>>

\* one iteration of the loop; the call returns after the last one
TremProcessFrame ==
    /\ call.active
    /\ \E xL \in XArgs, xR \in XArgs :
        LET r == ProcessFrame(trem, xL, xR, call.channels)
        IN  /\ call.channels = 1 => xR = xL
            /\ trem' = r.t
            /\ last' = [last EXCEPT !.frames = @ + 1,
                          !.frame = [ch |-> call.channels, xL |-> xL, xR |-> xR,
                                     yL |-> r.yL, yR |-> r.yR,
                                     gainL |-> r.gainL, gainR |-> r.gainR]]
            /\ call' = IF call.i + 1 = call.frames THEN NoCall
                       ELSE [call EXCEPT !.i = @ + 1]
    /\ UNCHANGED <<smVars, featVars, drv>>

SmNext == SmoothSetSampleRate \/ SmoothSetTimeConstant \/ SmoothReset \/ SmoothProcess

FeatNext == FeatPush \/ FeatReset

TremNext ==
    \/ TremSetSampleRate \/ TremSetDepth \/ TremSetRateHz \/ TremSetWet
    \/ TremSetStereoPhaseDeg \/ TremSetShape
    \/ TremProcessCall \/ TremProcessFrame

\* ============================================================ main(): the driver
\* Tremolo::parseShape: lower-case the name, then compare; unknown names are Sine
ToLower(name) ==
    CASE name = "SINE"        -> "sine"
      [] name = "Triangle"    -> "triangle"
      [] name = "sQuare-soft" -> "square-soft"
      [] OTHER                -> name
parseShape(name) ==
    LET lower == ToLower(name)
    IN  CASE lower = "sine"        -> "Sine"
          [] lower = "triangle"    -> "Triangle"
          [] lower = "square"      -> "Square"
          [] lower = "square-soft" -> "SquareSoft"
          [] OTHER                 -> "Sine"

\* divisionToHz: (bpm / 60) / beatsPerCycle, -1 for an unknown division
\* (beatsPerCycle in quarters of a beat: 4, 2, 1, 0.5, 0.25)
BeatQuarters(div) ==
    CASE div = "1"    -> 16
      [] div = "1/2"  -> 8
      [] div = "1/4"  -> 4
      [] div = "1/8"  -> 2
      [] div = "1/16" -> 1
      [] OTHER        -> 0
divisionToHz(bpm, div) ==
    IF BeatQuarters(div) = 0 THEN -RateOne
    ELSE (bpm * RateOne * 4) \div (60 * BeatQuarters(div))

\* --rate-sync: empty, or the (bpm, div) that parseRateSync reads from it
RateSyncArgs ==
    { [kind |-> "empty", bpm |-> 0, div |-> ""],
      [kind |-> "ok", bpm |-> 120, div |-> "1/8"],
      [kind |-> "ok", bpm |-> 120, div |-> "1/3"] }

DemoStart == 5     \* demoStart = 5.0 seconds
DemoEnd   == 8     \* demoEnd = 8.0 seconds

\* the arguments parseArgs accepts: rate > 0, depth, wet in [0,1], stereophase in [0,180]
ArgRates  == {DefaultRate}
ArgDepths == {0, DefaultDepth}
ArgWets   == {One}
ArgDegs   == {0}
ArgShapes == {"foo"}
\* the WAV file: sample rate, channel count (read16 accepts 1 or 2), samples
AudioRates    == {1, DefaultFs}
\* the k-th sample of the file
AudioWave == <<600, -One, One, -300>>
AudioSample(k) == AudioWave[(k % Len(AudioWave)) + 1]

\* Controller::update implementations: NoOpController, and one that rewrites
\* its rate and depth arguments
Controllers == {"NoOp", "Rewrite"}
CtrlOutputs == {<<0, 1500>>, <<3 * RateOne, -200>>}     \* (rate, depth)

NoCallback == [n |-> 0, rms |-> 0, zcr |-> 0, rate |-> 0, depth |-> 0]

DrvInit ==
    \E rate \in ArgRates, depth \in ArgDepths, wet \in ArgWets, deg \in ArgDegs,
       shape \in ArgShapes, demo \in BOOLEAN, sync \in RateSyncArgs,
       fs \in AudioRates, ch \in 1..2, n \in 0..MaxFrames,
       c \in Controllers :
        drv = [pc |-> "config",
               args |-> [rate |-> rate, depth |-> depth, wet |-> wet, stereophase |-> deg,
                         shape |-> shape, demo |-> demo, rateSync |-> sync],
               audio |-> [sampleRate |-> fs, channels |-> ch,
                          samples |-> [k \in 1..(n * ch) |-> AudioSample(k)]],
               ctrl |-> c,
               frames |-> 0, blockBuf |-> << >>, processed |-> 0, todo |-> 0, i |-> 0,
               pushes |-> 0,                 \* samples pushed so far: timeSec / dt
               \* history of the run
               ctrlCalls |-> 0, callback |-> NoCallback, handed |-> << >>, blocks |-> << >>]

NoDriver == [pc |-> "none"]

\* main.cpp 153-159: the engine is configured from the arguments, in this order
DrvConfigure ==
    /\ drv.pc = "config"
    /\ trem' = setShape(
                 setStereoPhaseDeg(
                   setWet(
                     setRateHz(
                       setDepth(setSampleRate(trem, drv.audio.sampleRate), drv.args.depth),
                       drv.args.rate),
                     drv.args.wet),
                   drv.args.stereophase),
                 parseShape(drv.args.shape))
    /\ drv' = [drv EXCEPT !.pc = "sync"]
    /\ UNCHANGED <<call, last, smVars, featVars>>

\* main.cpp 161-212: --rate-sync overrides the rate; then the locals of the loop
DrvRateSync ==
    /\ drv.pc = "sync"
    /\ LET rs == drv.args.rateSync
           hz == divisionToHz(rs.bpm, rs.div)
       IN  trem' = IF rs.kind = "ok" /\ hz > 0 THEN setRateHz(trem, hz) ELSE trem
    /\ drv' = [drv EXCEPT !.pc = "block",
                 !.frames = Len(drv.audio.samples) \div drv.audio.channels,
                 !.blockBuf = [k \in 1..(Block * drv.audio.channels) |-> 0],
                 !.processed = 0]
    /\ UNCHANGED <<call, last, smVars, featVars>>

\* main.cpp 214-219: while (processed < frames): copy the next block
DrvBlockBegin ==
    /\ drv.pc = "block"
    /\ drv.processed < drv.frames
    /\ LET ch   == drv.audio.channels
           todo == Min(Block, drv.frames - drv.processed)
       IN  drv' = [drv EXCEPT !.pc = "feat", !.todo = todo, !.i = 0,
                     !.blockBuf = [k \in 1..Len(drv.blockBuf) |->
                                     IF k <= todo * ch
                                     THEN drv.audio.samples[drv.processed * ch + k]
                                     ELSE drv.blockBuf[k]]]
    /\ UNCHANGED <<tremVars, smVars, featVars>>

\* blockBuf[i] (mono) or blockBuf[i*2+c] (stereo), zero-based in the source
BlockL(d, i) == IF d.audio.channels = 1 THEN d.blockBuf[i + 1] ELSE d.blockBuf[i * 2 + 1]
BlockR(d, i) == IF d.audio.channels = 1 THEN d.blockBuf[i + 1] ELSE d.blockBuf[i * 2 + 2]

\* main.cpp 222-228: feat.pushSample(L, R); if (feat.ready()) ...
DrvPush ==
    /\ drv.pc = "feat"
    /\ buf' = pushSample(buf, BlockL(drv, drv.i), BlockR(drv, drv.i))
    /\ drv' = [drv EXCEPT !.pc = IF ready(buf') THEN "ctrl" ELSE "demo"]
    /\ UNCHANGED <<featLast, tremVars, smVars>>

\* Controller::update: what the controller leaves in (rateHz, depth)
Update(c, rate, depth) ==
    IF c = "NoOp" THEN {<<rate, depth>>}
    ELSE CtrlOutputs

\* main.cpp 228-241: the body of if (feat.ready())
DrvCallback ==
    /\ drv.pc = "ctrl"
    /\ \E out \in Update(drv.ctrl, drv.args.rate, drv.args.depth) :
        /\ trem' = setDepth(setRateHz(trem, out[1]), out[2])
        /\ drv' = [drv EXCEPT !.pc = "demo", !.ctrlCalls = @ + 1,
                     !.callback = [n |-> Len(buf), rms |-> rms(buf), zcr |-> zcr(buf),
                                   rate |-> out[1], depth |-> out[2]]]
    /\ buf' = reset(buf)
    /\ UNCHANGED <<featLast, call, last, smVars>>

\* main.cpp 243-253: the scripted depth ramp, then timeSec += dt and the next i;
\* timeSec is pushes / sampleRate.  After the last i, trem.process is entered.
DemoDepth(baseDepth, pushes, fs) ==
    LET t == ((pushes - DemoStart * fs) * One) \div ((DemoEnd - DemoStart) * fs)
    IN  (baseDepth * (200 + (800 * t) \div One)) \div One

\* for (size_t i=0;i<todo;++i): after ++i, does the feature loop go on?
LoopLeavesEarly(i, todo) == FALSE
LoopMore(i, todo) == i < todo

DrvDemo ==
    /\ drv.pc = "demo"
    /\ LET fs == drv.audio.sampleRate
       IN  trem' = IF drv.args.demo /\ drv.pushes >= DemoStart * fs /\ drv.pushes <= DemoEnd * fs
                   THEN setDepth(trem, DemoDepth(drv.args.depth, drv.pushes, fs))
                   ELSE IF drv.args.demo /\ drv.pushes > DemoEnd * fs
                   THEN setDepth(trem, drv.args.depth)
                   ELSE trem
    /\ drv' = [drv EXCEPT !.pushes = @ + 1, !.i = @ + 1,
                 !.pc = IF LoopMore(drv.i + 1, drv.todo) THEN "feat" ELSE "proc"]
    /\ call' = IF LoopMore(drv.i + 1, drv.todo) THEN call
               ELSE [active |-> TRUE, frames |-> drv.todo,
                     channels |-> drv.audio.channels, i |-> 0]
    /\ UNCHANGED <<last, smVars, featVars>>

\* main.cpp 256: trem.process(blockBuf.data(), todo, audio.channels), one frame
DrvProcessFrame ==
    /\ drv.pc = "proc"
    /\ call.active
    /\ LET ch == call.channels
           xL == BlockL(drv, call.i)
           xR == BlockR(drv, call.i)
           r  == ProcessFrame(trem, xL, xR, ch)
           done == call.i + 1 = call.frames
       IN  /\ trem' = r.t
           /\ last' = [last EXCEPT !.op = "process", !.arg = ch, !.frames = @ + 1,
                         !.frame = [ch |-> ch, xL |-> xL, xR |-> xR, yL |-> r.yL, yR |-> r.yR,
                                    gainL |-> r.gainL, gainR |-> r.gainR]]
           /\ drv' = [drv EXCEPT
                        !.blockBuf = [k \in 1..Len(drv.blockBuf) |->
                                        IF k = call.i * ch + 1 THEN r.yL
                                        ELSE IF ch = 2 /\ k = call.i * ch + 2 THEN r.yR
                                        ELSE drv.blockBuf[k]],
                        !.handed = Append(@, drv.processed + call.i + 1),
                        !.pc = IF done THEN "write" ELSE "proc"]
           /\ call' = IF done THEN NoCall ELSE [call EXCEPT !.i = @ + 1]
    /\ UNCHANGED <<smVars, featVars>>

\* processed += todo
AdvanceByBlock(processed, todo) == processed + Block
Advance(processed, todo) == processed + todo

\* main.cpp 258-276: write the block back; processed += todo
DrvBlockEnd ==
    /\ drv.pc = "write"
    /\ LET ch == drv.audio.channels
       IN  drv' = [drv EXCEPT !.pc = "block",
                     !.audio.samples = [k \in 1..Len(drv.audio.samples) |->
                                          IF k > drv.processed * ch
                                             /\ k <= (drv.processed + drv.todo) * ch
                                          THEN drv.blockBuf[k - drv.processed * ch]
                                          ELSE drv.audio.samples[k]],
                     !.blocks = Append(@, drv.todo),
                     !.processed = Advance(@, drv.todo)]
    /\ UNCHANGED <<tremVars, smVars, featVars>>

\* main.cpp 277-289: the loop is left; the output is written
DrvFinish ==
    /\ drv.pc = "block"
    /\ drv.processed >= drv.frames
    /\ drv' = [drv EXCEPT !.pc = "done"]
    /\ UNCHANGED <<tremVars, smVars, featVars>>

DrvNext ==
    \/ DrvConfigure \/ DrvRateSync \/ DrvBlockBegin \/ DrvPush \/ DrvCallback
    \/ DrvDemo \/ DrvProcessFrame \/ DrvBlockEnd \/ DrvFinish

\* ============================================================ specifications
\* the driver
Init == SmInit /\ FeatInit /\ TremInit /\ DrvInit
Next == DrvNext
Spec == Init /\ [][Next]_vars
\* the driver runs to completion: nothing but the loop itself schedules its steps
FairSpec == Spec /\ WF_vars(Next)

\* each object on its own, under any sequence of calls
InitObjects == SmInit /\ FeatInit /\ TremInit /\ drv = NoDriver
SpecSmoother == InitObjects /\ [][SmNext]_vars
SpecFeature  == InitObjects /\ [][FeatNext]_vars
SpecTremolo  == InitObjects /\ [][TremNext]_vars

\* ============================================================ properties

\* ---- OnePoleSmoother
\* C9: in every state of a OnePoleSmoother (process() can be called in each,
\* the freshly constructed one included) the stored coefficient a is the one
\* derived from the current time constant and sample rate.
C9_CoeffCurrent == sm.a = Coeff(sm.tau, sm.sampleRate)

\* ---- FeatureExtractor
\* the mid values of the pushed (L, R) pairs, and the last n elements of a sequence
Mids(pairs) == [k \in 1..Len(pairs) |-> (pairs[k][1] + pairs[k][2]) \div 2]
LastN(q, n) == SubSeq(q, Len(q) - n + 1, Len(q))

\* C4: after any sequence of pushSample and reset calls the window holds at
\* most FrameSize samples, ready() is true exactly when it holds FrameSize, and
\* that is exactly when at least FrameSize samples were pushed since the last
\* reset (so ready() is false after reset() until FrameSize further pushes).
C4_WindowBound ==
    /\ Len(buf) <= FrameSize
    /\ ready(buf) <=> Len(buf) = FrameSize
    /\ ready(buf) <=> Len(featLast.pushed) >= FrameSize
    /\ featLast.op = "reset" => ~ready(buf)

C4_Witness ==
    /\ featLast.op = "pushSample"
    /\ Len(featLast.pushed) = FrameSize + 1
    /\ ready(buf)

\* C5: eviction is FIFO: after k pushes since the last reset the window is the
\* mid values of the last min(k, FrameSize) pushes, in insertion order.
C5_Fifo ==
    LET k == Len(featLast.pushed)
    IN  buf = LastN(Mids(featLast.pushed), Min(k, FrameSize))

C5_Witness ==
    /\ Len(featLast.pushed) = FrameSize + 2
    /\ buf # SubSeq(Mids(featLast.pushed), 1, FrameSize)
    /\ buf[FrameSize] = 0
    /\ buf[1] = One

\* ---- Tremolo
\* C1: the LFO phase is in [0, 1) after every frame of every process call,
\* for any rate and sample rate the setters accept.
C1_PhaseInRange == 0 <= trem.phase_ /\ trem.phase_ < PhaseOne

\* C6: after any sequence of setter calls the parameters are in their domains
\* (depth and wet in [0,1], stereo offset in [0, 0.5] cycle, rate at or above the
\* floor, sample rate positive with 48000 for a non-positive argument), and each
\* setter leaves every other parameter as it was.
C6_Domains ==
    /\ 0 <= trem.depth_ /\ trem.depth_ <= One
    /\ 0 <= trem.wet_ /\ trem.wet_ <= One
    /\ 0 <= trem.stereoPhaseR_ /\ 2 * trem.stereoPhaseR_ <= PhaseOne
    /\ trem.rateHz_ >= RateFloor
    /\ trem.sr_ > 0
    /\ (last.op = "setSampleRate" /\ last.arg <= 0) => trem.sr_ = DefaultFs
    /\ trem.shape_ \in Shapes

Params == {"sr_", "rateHz_", "depth_", "wet_", "stereoPhaseR_", "shape_", "phase_"}
OwnParam(op) ==
    CASE op = "setSampleRate"     -> "sr_"
      [] op = "setDepth"          -> "depth_"
      [] op = "setRateHz"         -> "rateHz_"
      [] op = "setWet"            -> "wet_"
      [] op = "setStereoPhaseDeg" -> "stereoPhaseR_"
      [] op = "setShape"          -> "shape_"

C6_OwnParameterOnly ==
    last'.setters = last.setters + 1 =>
        \A f \in Params \ {OwnParam(last'.op)} : trem'[f] = trem[f]

C6_SettersClamp == []C6_Domains /\ [][C6_OwnParameterOnly]_vars

C6_Witness ==
    /\ last.op = "setStereoPhaseDeg" /\ last.arg > 180
    /\ 2 * trem.stereoPhaseR_ = PhaseOne
    /\ trem.depth_ = One
    /\ last.setters = 2

\* C8: with stereo phase offset 0 the left and right gains of every stereo
\* frame are equal, whatever the shape, so equal inputs give equal outputs.
C8_EqualGains ==
    (last.op = "process" /\ last.frame.ch = 2 /\ trem.stereoPhaseR_ = 0) =>
        /\ last.frame.gainL = last.frame.gainR
        /\ last.frame.xL = last.frame.xR => last.frame.yL = last.frame.yR

\* ---- the driver
\* C7: with depth 0 given to setDepth during configuration (and nothing changing
\* it afterwards) every processed sample is written back equal to its input.
C7_DepthZeroIdentity ==
    (/\ drv.pc \in {"proc", "write"}
     /\ last.frame.ch > 0
     /\ drv.args.depth = 0 /\ drv.ctrl = "NoOp" /\ ~drv.args.demo
     /\ trem.depth_ = 0)
    => /\ last.frame.yL = last.frame.xL
       /\ last.frame.yR = last.frame.xR

\* C2: with the no-op controller a per-frame callback leaves the engine's
\* target rate and target depth as they were immediately before it.
C2_CallbackStep ==
    (drv.pc = "ctrl" /\ drv.ctrl = "NoOp") =>
        /\ trem'.rateHz_ = trem.rateHz_
        /\ trem'.depth_ = trem.depth_
C2_NoOpKeepsTargets == [][C2_CallbackStep]_vars

\* samples pushed so far (the push of the current iteration included)
PushesDone == drv.pushes + (IF drv.pc \in {"ctrl", "demo"} THEN 1 ELSE 0)

\* C3: the controller is invoked once per completed analysis frame, exactly
\* after each FrameSize-th pushed sample; it is given the features of the full
\* window, its results are applied, and the window is empty afterwards, so that
\* frames never overlap.
C3_OncePerFrame ==
    drv.pc \notin {"config", "sync"} =>
        /\ drv.pc = "ctrl" =>
              /\ PushesDone > 0 /\ PushesDone % FrameSize = 0
              /\ drv.ctrlCalls = PushesDone \div FrameSize - 1
              /\ Len(buf) = FrameSize
        /\ drv.pc # "ctrl" =>
              /\ drv.ctrlCalls = PushesDone \div FrameSize
              /\ Len(buf) = PushesDone % FrameSize
        /\ drv.ctrlCalls > 0 => drv.callback.n = FrameSize
        /\ (drv.pc = "demo" /\ PushesDone > 0 /\ PushesDone % FrameSize = 0) =>
              /\ buf = << >>
              /\ trem.rateHz_ = Max(RateFloor, drv.callback.rate)
              /\ trem.depth_ = clamp01(drv.callback.depth)
        /\ drv.pc = "done" => drv.ctrlCalls = drv.frames \div FrameSize

C3_Witness ==
    /\ drv.pc = "demo"
    /\ drv.ctrlCalls = 2
    /\ buf = << >>
    /\ drv.i # 0

\* C10: the driver loop terminates for every input length, and at its end
\* every input frame was handed to Tremolo::process exactly once, in order,
\* in blocks of at most Block frames.
RECURSIVE Sum(_)
Sum(q) == IF q = << >> THEN 0 ELSE Head(q) + Sum(Tail(q))

C10_AllHanded ==
    drv.pc = "done" =>
        /\ drv.processed = drv.frames
        /\ drv.handed = [k \in 1..drv.frames |-> k]
        /\ \A b \in 1..Len(drv.blocks) : drv.blocks[b] >= 1 /\ drv.blocks[b] <= Block
        /\ Sum(drv.blocks) = drv.frames

C10_Terminates == <>(drv.pc = "done") /\ []C10_AllHanded

C10_Witness ==
    /\ drv.pc = "done"
    /\ drv.frames = MaxFrames
    /\ drv.ctrl = "Rewrite" /\ drv.ctrlCalls = 2
    /\ trem.depth_ = One

\* C11: when the engine has been configured as the driver configures it
\* (setSampleRate, then setDepth and setRateHz with the user's values), the
\* depth smoother holds the configured target depth and the rate smoother the
\* configured target rate, so that no ramp from the built-in defaults occurs.
C11_SmoothersSeeded ==
    drv.pc = "sync" =>
        /\ trem.depth_ = drv.args.depth
        /\ trem.rateHz_ = drv.args.rate
        /\ trem.depthSm_.z = trem.depth_
        /\ trem.rateSm_.z = trem.rateHz_


\* C12 (as stated): immediately after each per-frame callback the engine's
\* target rate and target depth equal exactly the values the controller left
\* in its rate and depth arguments, out-of-range values included.
C12_ExactStep ==
    drv.pc = "ctrl" =>
        /\ trem'.rateHz_ = drv'.callback.rate
        /\ trem'.depth_ = drv'.callback.depth
C12_AppliedExactly == [][C12_ExactStep]_vars

\* C12 (amended): the driver hands the controller's values unvalidated to
\* setRateHz and setDepth, which clamp them: immediately after each callback
\* the target rate is the controller's rate raised to the floor, and the target
\* depth is the controller's depth limited to [0,1]; values inside the domains
\* are applied exactly.
C12_ClampedStep ==
    drv.pc = "ctrl" =>
        LET r == drv'.callback.rate
            d == drv'.callback.depth
        IN  /\ trem'.rateHz_ = (IF r < RateFloor THEN RateFloor ELSE r)
            /\ trem'.depth_ = (IF d < 0 THEN 0 ELSE IF d > One THEN One ELSE d)
            /\ (r >= RateFloor /\ d >= 0 /\ d <= One) =>
                   (trem'.rateHz_ = r /\ trem'.depth_ = d)
C12_AppliedClamped == [][C12_ClampedStep]_vars

C12_Witness ==
    /\ drv.pc = "demo" /\ buf = << >>
    /\ drv.ctrlCalls >= 1 /\ PushesDone % FrameSize = 0
    /\ drv.callback.rate = 0 /\ trem.rateHz_ = RateFloor
    /\ drv.callback.depth > One /\ trem.depth_ = One

\* C13: a OnePoleSmoother with a in (0,1) moves its output monotonically
\* toward a constant target without crossing it, the distance shrinking by the
\* factor a per call (up to one unit of rounding); within a Tremolo::process
\* call the rate and depth smoothers are such smoothers, so the smoothed rate
\* and depth never jump to their targets in a single step.
Dist(x, y) == IF x >= y THEN x - y ELSE y - x

C13_SmoothStep(s, s2, target) ==
    LET d  == Dist(s.z, target)
        d2 == Dist(s2.z, target)
    IN  /\ 0 < s.a /\ s.a < CoefOne
        /\ Min(s.z, target) <= s2.z /\ s2.z <= Max(s.z, target)
        /\ d2 <= d
        /\ Dist(d2 * CoefOne, s.a * d) <= CoefOne
        /\ s.a * d >= CoefOne => s2.z # target

C13_ProcessStep ==
    (call.active /\ trem' # trem) =>
        /\ C13_SmoothStep(trem.depthSm_, trem'.depthSm_, trem.depth_)
        /\ C13_SmoothStep(trem.rateSm_, trem'.rateSm_, trem.rateHz_)
C13_NoJump == [][C13_ProcessStep]_vars

\* C14: in every block all feature pushes, controller callbacks and setter
\* calls for the block's samples come before Tremolo::process touches the
\* block's first sample: the features are computed from the unprocessed input,
\* process starts only when the whole block has been pushed, and while it runs
\* the targets are those left by the last setter call of the feature pass.
InputMid(frame, ch) ==
    IF ch = 1 THEN Mid(AudioSample(frame), AudioSample(frame))
    ELSE Mid(AudioSample(2 * frame - 1), AudioSample(2 * frame))

C14_State ==
    /\ drv.pc \in {"feat", "ctrl", "demo"} =>
          /\ ~call.active
          /\ Len(drv.handed) = drv.processed
          /\ PushesDone <= drv.processed + drv.todo
          /\ \A k \in 1..(drv.todo * drv.audio.channels) :
                drv.blockBuf[k] = AudioSample(drv.processed * drv.audio.channels + k)
    /\ drv.pc \in {"feat", "ctrl", "demo", "proc", "write", "block", "done"} =>
          \A j \in 1..Len(buf) :
              buf[j] = InputMid(PushesDone - Len(buf) + j, drv.audio.channels)
    /\ drv.pc = "proc" =>
          /\ call.active
          /\ drv.pushes = drv.processed + drv.todo
          /\ Len(drv.handed) = drv.processed + call.i

C14_ProcStep ==
    drv.pc = "proc" =>
        /\ trem'.rateHz_ = trem.rateHz_ /\ trem'.depth_ = trem.depth_
        /\ buf' = buf

C14_FeaturePassFirst == []C14_State /\ [][C14_ProcStep]_vars

C14_Witness ==
    /\ drv.pc = "proc" /\ call.i = 0
    /\ drv.processed = 2 * Block
    /\ drv.ctrl = "Rewrite" /\ drv.ctrlCalls = 2
    /\ Len(buf) = drv.pushes % FrameSize /\ Len(buf) > 0
    /\ trem.rateHz_ = 3 * RateOne /\ trem.depth_ = 0
    /\ drv.audio.channels = 2

=============================================================================
